---- MODULE Spec2Model ----
(***************************************************************************)
(* Model of src/app.py: the embedding client (get_embeddings), the writer  *)
(* of embeddings (update_embeddings_in_pgv) and the synchronisation pass   *)
(* (sync_embeddings) over the MySQL source, the pgvector target and the    *)
(* migration_tracker progress store.                                       *)
(***************************************************************************)
EXTENDS Integers, Sequences, FiniteSets, TLC

\* ------------------------------------------------------------------ bounds

\* Stands for expected_dim (4096 in the code); vectors are scaled down.
D == 2

\* Largest number of rows tbl_genie_genie ever holds.
MaxSource == 2

\* ------------------------------------------------------------- primitives

\* Python None / SQL NULL of a text column.
None == "<None>"

\* `x or ""` of the code: None and the empty string both give "".
OrEmpty(x) == IF x = None \/ x = "" THEN "" ELSE x

Max(S) == CHOOSE m \in S : \A x \in S : x <= m

Zeros(n) == [i \in 1..n |-> 0]

Ones(n) == [i \in 1..n |-> 1]

\* np.pad(v, (0, n), mode='constant'): n zeros appended after v.
Pad(v, n) == v \o Zeros(n)

\* ------------------------------------------------------ embedding provider

\* Vectors the provider may put in data[0].embedding: every length 0..D+1.
ProviderVectors == UNION {[1..n -> {0, 1}] : n \in 0..(D + 1)}

\* What one POST to {host}/embeddings can come back with.
\*   network_failure      requests.post raises (ConnectionError, Timeout)
\*   http_error_status    raise_for_status raises HTTPError (non-2xx)
\*   non_json_body        response.json() raises requests' JSONDecodeError
\*                        (a RequestException since requests 2.27)
\*   missing_data         JSON object without "data"
\*   empty_data_list      {"data": []}
\*   missing_embedding    {"data": [{}]}
\*   null_embedding       {"data": [{"embedding": null}]}
\*   vector               {"data": [{"embedding": [...]}]}
FailureKinds ==
    {"network_failure", "http_error_status", "non_json_body", "missing_data",
     "empty_data_list", "missing_embedding", "null_embedding"}

Failure(k) == [kind |-> k, embedding |-> <<>>]

Vector(v) == [kind |-> "vector", embedding |-> v]

ProviderResponses ==
    {Failure(k) : k \in FailureKinds} \cup {Vector(v) : v \in ProviderVectors}

Returned(v) == [exc |-> "none", value |-> v]

Raised(e) == [exc |-> e, value |-> <<>>]

\* Lines 105-108: the dimension repair. A wrong-length (or empty) vector gets
\* max(0, expected_dim - len) zeros appended: a longer one is left as it is.
RepairDimension(embedding, expected_dim) ==
    IF Len(embedding) = 0 \/ Len(embedding) # expected_dim
    THEN Pad(embedding,
             IF expected_dim - Len(embedding) > 0
             THEN expected_dim - Len(embedding) ELSE 0)
    ELSE embedding

\* Faulty variant: the RequestException is not caught and reaches the caller.
get_embeddings_reraising(text, response, expected_dim) ==
    CASE response.kind \in {"network_failure", "http_error_status", "non_json_body"}
            -> Raised("RequestException")
      [] response.kind = "empty_data_list"
            -> Raised("IndexError")
      [] response.kind = "null_embedding"
            -> Raised("TypeError")
      [] response.kind \in {"missing_data", "missing_embedding"}
            -> Returned(RepairDimension(<<>>, expected_dim))
      [] response.kind = "vector"
            -> Returned(RepairDimension(response.embedding, expected_dim))

\* get_embeddings(text, expected_dim): the value returned, or the exception
\* that leaves the function, for one provider response.
get_embeddings(text, response, expected_dim) ==
    CASE response.kind \in {"network_failure", "http_error_status", "non_json_body"}
            \* except requests.exceptions.RequestException (lines 109-112)
            -> Returned(Zeros(expected_dim))
      [] response.kind = "empty_data_list"
            \* result.get("data", [{}])[0] on an empty list (line 104)
            -> Raised("IndexError")
      [] response.kind = "null_embedding"
            \* len(None) in the warning of line 106
            -> Raised("TypeError")
      [] response.kind \in {"missing_data", "missing_embedding"}
            -> Returned(RepairDimension(<<>>, expected_dim))
      [] response.kind = "vector"
            -> Returned(RepairDimension(response.embedding, expected_dim))

\* ------------------------------------------------------------------ state

\* The coroutines of sync_embeddings the event loop may hold at once.
Procs == {1, 2}

VARIABLES
    source,              \* tbl_genie_genie (MySQL), rows in insertion order
    tracker_id_default,  \* how migration_tracker.id is defaulted (schema)
    tracker,             \* migration_tracker: committed id_migrated values
    pg_txn,              \* migration_tracker as app.state.pg_pool sees it
    target,              \* genie_documents: committed rows
    pgv_txn,             \* genie_documents as app.state.pgv_pool sees it
    pc,                  \* where each sync_embeddings coroutine stands
    last_migrated_id,    \* local of sync_embeddings
    rows,                \* local of sync_embeddings
    existing_questions,  \* local of sync_embeddings
    idx,                 \* position of `for row in rows`
    result,              \* what the handler returned or raised
    provider_calls,      \* texts posted to the provider by the current pass
    maxFetched,          \* history: largest id fetched by a successful pass
    maxMark,             \* history: largest mark migration_tracker ever held
    overlapped,          \* history: the latest pass began inside another one
    targetAtStart,       \* history: genie_documents when the latest pass started
    appended,            \* history: the source grew since it was last read
    followUp,            \* history: what the latest pass follows, source unchanged
    embText,             \* get_embeddings: the text argument
    embResponse,         \* get_embeddings: what the provider answers
    embResult,           \* get_embeddings: what the caller gets
    embPc,               \* get_embeddings: "idle", "called", "returned"
    searchRequest,       \* the SearchRequest a client posted, with the
                         \* provider's answer to its query
    searchResult,        \* /search: what the handler returned or raised
    simpleResult,        \* /search-simple: what the handler returned or raised
    searchSawNull        \* history: the latest search read a row without vectors

dbVars == <<source, tracker_id_default, tracker, pg_txn, target, pgv_txn>>

passVars == <<pc, last_migrated_id, rows, existing_questions, idx, result,
              provider_calls>>

histVars == <<maxFetched, maxMark, overlapped, targetAtStart, appended,
              followUp>>

embVars == <<embText, embResponse, embResult, embPc>>

searchVars == <<searchRequest, searchResult, simpleResult, searchSawNull>>

vars == <<dbVars, passVars, histVars, embVars, searchVars>>

\* ----------------------------------------------------------------- stores

\* Values a tbl_genie_genie row may carry.
SourceQuestions == {None, "a"}

SourceAnswers == {None, "x"}

\* A newly inserted genie_documents row has no embeddings yet.
NullEmbedding == [null |-> TRUE, vec |-> <<>>]

Embedded(v) == [null |-> FALSE, vec |-> v]

HasQuestion(table, q) == \E i \in 1..Len(table) : table[i].question = q

NextId(table) == Max({0} \cup {table[i].id : i \in 1..Len(table)}) + 1

\* Faulty variant: the INSERT without the unique constraint on question.
InsertWithoutConstraint(table, q, a, l, d) ==
    Append(table, [id |-> NextId(table), question |-> q, answer |-> a,
                   link |-> l, date |-> d,
                   question_embedding |-> NullEmbedding,
                   answer_embedding |-> NullEmbedding])

\* INSERT INTO genie_documents ... ON CONFLICT (question) DO UPDATE SET
\* date = EXCLUDED.date (lines 387-395): the table afterwards.
InsertOnConflict(table, q, a, l, d) ==
    IF HasQuestion(table, q)
    THEN [i \in 1..Len(table) |->
            IF table[i].question = q THEN [table[i] EXCEPT !.date = d]
            ELSE table[i]]
    ELSE Append(table, [id |-> NextId(table), question |-> q, answer |-> a,
                        link |-> l, date |-> d,
                        question_embedding |-> NullEmbedding,
                        answer_embedding |-> NullEmbedding])

\* RETURNING id (line 396).
ReturningId(table, q) ==
    LET i == CHOOSE j \in 1..Len(table) : table[j].question = q
    IN table[i].id

\* UPDATE genie_documents SET question_embedding, answer_embedding
\* WHERE id = question_id (lines 122-129).
UpdateEmbeddings(table, question_id, qe, ae) ==
    [i \in 1..Len(table) |->
        IF table[i].id = question_id
        THEN [table[i] EXCEPT !.question_embedding = Embedded(qe),
                              !.answer_embedding = Embedded(ae)]
        ELSE table[i]]

\* SELECT question FROM genie_documents (lines 368-369).
SelectQuestions(table) == {table[i].question : i \in 1..Len(table)}

\* SELECT COALESCE(MAX(id_migrated), 0) FROM migration_tracker (line 336).
SelectMark(table) == IF table = {} THEN 0 ELSE Max(table)

\* INSERT INTO migration_tracker (id_migrated) ... ON CONFLICT (id) DO UPDATE
\* (lines 408-415). No id is given: with a sequence default every insert adds
\* a row, with a constant default the one row is overwritten.
UpsertMark(table, v, id_default) ==
    IF id_default = "sequence" THEN table \cup {v} ELSE {v}

\* SELECT ... FROM tbl_genie_genie WHERE id > %s (lines 349-353).
SelectNewer(table, mark) == {i \in 1..Len(table) : table[i].id > mark}

\* The query has no ORDER BY: the rows may come back in any order.
Orderings(S) ==
    {f \in [1..Cardinality(S) -> S] :
        \A i, j \in 1..Cardinality(S) : i # j => f[i] # f[j]}

Mark == SelectMark(tracker)

\* ------------------------------------------------------ sync_embeddings

NoResult == [status |-> 0, synced |-> -1, detail |-> ""]

\* return {"status": "success", "synced": n} (lines 362 and 418).
Success(n) == [status |-> 200, synced |-> n, detail |-> "success"]

\* raise HTTPException(status_code, detail) as it leaves the handler.
HttpError(code, d) == [status |-> code, synced |-> -1, detail |-> d]

\* An HTTPException raised inside the outer try (lines 341, 373, 400, 423) is
\* itself an Exception: `except Exception` (lines 449-454) catches it and
\* raises the 500 that reaches the caller.
Rewrapped(d) == HttpError(500, d)

\* The details of a pass cut short in the batch loop or at the progress write.
BatchAborts ==
    {"Insert error on genie_documents", "PostgreSQL query error: embeddings",
     "PostgreSQL query error: migration_tracker", "IndexError"}

\* What a finished pass leaves for the next one to follow.
Outcome(r) ==
    IF r.status = 200 THEN "success"
    ELSE IF r.detail \in BatchAborts THEN "batch_abort"
    ELSE "none"

\* The synchronous stretches of the handler: between two awaits a coroutine is
\* not interrupted by another coroutine of the same event loop.
Running(p) == pc[p] \in {"loop", "commit_pg", "commit_pgv"}

MayRun(p) == \A o \in Procs \ {p} : ~Running(o)

Row(p) == rows[p][idx[p]]

\* question = row.get('genie_question') or "" (line 379).
Question(row) == OrEmpty(row.genie_question)

\* answer = row.get('genie_answer') or "" (line 383).
Answer(row) == OrEmpty(row.genie_answer)

Finish(p, r) ==
    /\ pc' = [pc EXCEPT ![p] = "done"]
    /\ result' = [result EXCEPT ![p] = r]

\* External writers add rows to tbl_genie_genie; ids grow with insertion.
AppendSource ==
    /\ Len(source) < MaxSource
    /\ \E q \in SourceQuestions, a \in SourceAnswers :
         source' = Append(source,
                          [id |-> Len(source) + 1, genie_question |-> q,
                           genie_answer |-> a,
                           genie_questiondate |-> Len(source) + 1,
                           genie_sourcelink |-> Len(source) + 1])
    /\ appended' = TRUE
    /\ UNCHANGED <<tracker_id_default, tracker, pg_txn, target, pgv_txn>>
    /\ UNCHANGED <<passVars, maxFetched, maxMark, overlapped, targetAtStart,
                   followUp, embVars,
                   searchVars>>

\* Lines 333-337: a new invocation reads the high-water mark.
ReadMark(p) ==
    /\ pc[p] \in {"idle", "done"}
    /\ MayRun(p)
    /\ last_migrated_id' = [last_migrated_id EXCEPT ![p] = SelectMark(pg_txn)]
    /\ pc' = [pc EXCEPT ![p] = "fetch"]
    /\ rows' = [rows EXCEPT ![p] = <<>>]
    /\ existing_questions' = [existing_questions EXCEPT ![p] = {}]
    /\ idx' = [idx EXCEPT ![p] = 0]
    /\ provider_calls' = [provider_calls EXCEPT ![p] = <<>>]
    /\ targetAtStart' = target
    /\ overlapped' = (\E o \in Procs \ {p} : pc[o] \in {"fetch", "fetched"})
    /\ UNCHANGED <<dbVars, result, maxFetched, maxMark, appended, followUp,
                   embVars,
                   searchVars>>

\* Lines 338-344: the read fails; rollback, HTTPException(503), rewrapped.
ReadMarkFail(p) ==
    /\ pc[p] \in {"idle", "done"}
    /\ MayRun(p)
    /\ pg_txn' = tracker
    /\ Finish(p, Rewrapped("Permission denied or table migration_tracker missing"))
    /\ rows' = [rows EXCEPT ![p] = <<>>]
    /\ existing_questions' = [existing_questions EXCEPT ![p] = {}]
    /\ idx' = [idx EXCEPT ![p] = 0]
    /\ provider_calls' = [provider_calls EXCEPT ![p] = <<>>]
    /\ targetAtStart' = target
    /\ last_migrated_id' = [last_migrated_id EXCEPT ![p] = 0]
    /\ UNCHANGED <<source, tracker_id_default, tracker, target, pgv_txn>>
    /\ overlapped' = (\E o \in Procs \ {p} : pc[o] \in {"fetch", "fetched"})
    /\ UNCHANGED <<maxFetched, maxMark, appended, followUp, embVars,
                   searchVars>>

\* Lines 346-354: the source query, answered by MySQL while the coroutine
\* awaits; no ORDER BY, so any order of the matching rows.
Fetch(p) ==
    /\ pc[p] = "fetch"
    /\ \E f \in Orderings(SelectNewer(source, last_migrated_id[p])) :
         rows' = [rows EXCEPT ![p] = [i \in DOMAIN f |-> source[f[i]]]]
    /\ pc' = [pc EXCEPT ![p] = "fetched"]
    /\ followUp' = IF appended THEN "none" ELSE Outcome(result[p])
    /\ appended' = FALSE
    /\ result' = [result EXCEPT ![p] = NoResult]
    /\ UNCHANGED <<dbVars, last_migrated_id, existing_questions, idx,
                   provider_calls, maxFetched, maxMark, overlapped,
                   targetAtStart, embVars,
                   searchVars>>

\* Lines 431-436: aiomysql.Error is reported as 503.
FetchFail(p) ==
    /\ pc[p] = "fetch"
    /\ Finish(p, HttpError(503, "MySQL service unavailable"))
    /\ UNCHANGED <<dbVars, last_migrated_id, rows, existing_questions, idx,
                   provider_calls, histVars, embVars,
                   searchVars>>

\* Lines 361-362: nothing new.
EmptyReturn(p) ==
    /\ pc[p] = "fetched"
    /\ MayRun(p)
    /\ rows[p] = <<>>
    /\ Finish(p, Success(0))
    /\ UNCHANGED <<dbVars, last_migrated_id, rows, existing_questions, idx,
                   provider_calls, histVars, embVars,
                   searchVars>>

\* Lines 364-369: the dedup snapshot, read through pgv_conn's open transaction.
Scan(p) ==
    /\ pc[p] = "fetched"
    /\ MayRun(p)
    /\ rows[p] # <<>>
    /\ existing_questions' =
         [existing_questions EXCEPT ![p] = SelectQuestions(pgv_txn)]
    /\ idx' = [idx EXCEPT ![p] = 1]
    /\ pc' = [pc EXCEPT ![p] = "loop"]
    /\ UNCHANGED <<dbVars, last_migrated_id, rows, result, provider_calls,
                   histVars, embVars,
                   searchVars>>

\* Lines 370-376: the scan fails; pgv_conn.rollback(), HTTPException(503).
ScanFail(p) ==
    /\ pc[p] = "fetched"
    /\ MayRun(p)
    /\ rows[p] # <<>>
    /\ pgv_txn' = target
    /\ Finish(p, Rewrapped("Permission denied for table genie_documents"))
    /\ UNCHANGED <<source, tracker_id_default, tracker, pg_txn, target>>
    /\ UNCHANGED <<last_migrated_id, rows, existing_questions, idx,
                   provider_calls, histVars, embVars,
                   searchVars>>

\* What the provider answers to the two calls made for one row (question,
\* then answer): good vectors, an outage, or a body that makes get_embeddings
\* raise, at the first call or at the second.
SyncResponses ==
    {<<Vector(Ones(D)), Vector(Ones(D))>>,
     <<Failure("network_failure"), Failure("network_failure")>>,
     <<Failure("empty_data_list"), Failure("empty_data_list")>>,
     <<Vector(Ones(D)), Failure("empty_data_list")>>}

\* The answers that let both calls of get_embeddings return.
ReturningResponses ==
    {r \in SyncResponses : /\ get_embeddings("", r[1], D).exc = "none"
                           /\ get_embeddings("", r[2], D).exc = "none"}

Call(text, response) == [text |-> text, kind |-> response.kind]

\* Lines 380-381: the question is in the snapshot.
LoopSkip(p) ==
    /\ pc[p] = "loop"
    /\ idx[p] <= Len(rows[p])
    /\ Question(Row(p)) \in existing_questions[p]
    /\ idx' = [idx EXCEPT ![p] = idx[p] + 1]
    /\ UNCHANGED <<dbVars, pc, last_migrated_id, rows, existing_questions,
                   result, provider_calls, histVars, embVars,
                   searchVars>>

\* Lines 383-405 with update_embeddings_in_pgv (lines 115-130): insert the
\* row, embed question and answer, write both vectors, commit. An exception
\* leaving get_embeddings is no psycopg2.Error: it reaches `except Exception`
\* (lines 449-454), which rolls nothing back.
EmbedRow(p, responses) ==
    /\ pc[p] = "loop"
    /\ idx[p] <= Len(rows[p])
    /\ Question(Row(p)) \notin existing_questions[p]
    /\ \E r \in responses :
         LET rq == r[1]
             ra == r[2]
             question == Question(Row(p))
             answer == Answer(Row(p))
             inserted == InsertOnConflict(pgv_txn, question, answer,
                                          Row(p).genie_sourcelink,
                                          Row(p).genie_questiondate)
             question_id == ReturningId(inserted, question)
             question_embedding == get_embeddings(question, rq, D)
             \* get_embeddings(answer) if answer else get_embeddings("")
             answer_text == IF answer # "" THEN answer ELSE ""
             answer_embedding == get_embeddings(answer_text, ra, D)
         IN
           IF question_embedding.exc # "none"
           THEN /\ pgv_txn' = inserted
                /\ provider_calls' = [provider_calls EXCEPT ![p] =
                                        Append(@, Call(question, rq))]
                /\ Finish(p, HttpError(500, question_embedding.exc))
                /\ UNCHANGED <<target, idx>>
           ELSE IF answer_embedding.exc # "none"
           THEN /\ pgv_txn' = inserted
                /\ provider_calls' = [provider_calls EXCEPT ![p] =
                                        Append(Append(@, Call(question, rq)),
                                               Call(answer_text, ra))]
                /\ Finish(p, HttpError(500, answer_embedding.exc))
                /\ UNCHANGED <<target, idx>>
           ELSE LET updated == UpdateEmbeddings(inserted, question_id,
                                                question_embedding.value,
                                                answer_embedding.value)
                IN /\ pgv_txn' = updated
                   /\ target' = updated
                   /\ provider_calls' = [provider_calls EXCEPT ![p] =
                                        Append(Append(@, Call(question, rq)),
                                               Call(answer_text, ra))]
                   /\ idx' = [idx EXCEPT ![p] = idx[p] + 1]
                   /\ UNCHANGED <<pc, result>>
    /\ UNCHANGED <<source, tracker_id_default, tracker, pg_txn>>
    /\ UNCHANGED <<last_migrated_id, rows, existing_questions, histVars, embVars,
                   searchVars>>

\* Faulty variant: the failed pass records the row it stopped at as progress.
InsertFailAdvancingMark(p) ==
    /\ pc[p] = "loop"
    /\ idx[p] <= Len(rows[p])
    /\ Question(Row(p)) \notin existing_questions[p]
    /\ pgv_txn' = target
    /\ pg_txn' = UpsertMark(pg_txn, Row(p).id, tracker_id_default)
    /\ tracker' = pg_txn'
    /\ Finish(p, Rewrapped("Insert error on genie_documents"))
    /\ UNCHANGED <<source, tracker_id_default, target>>
    /\ UNCHANGED <<last_migrated_id, rows, existing_questions, idx,
                   provider_calls, histVars, embVars,
                   searchVars>>

\* Lines 397-403: the INSERT fails; pgv_conn.rollback(), HTTPException(503).
InsertFail(p) ==
    /\ pc[p] = "loop"
    /\ idx[p] <= Len(rows[p])
    /\ Question(Row(p)) \notin existing_questions[p]
    /\ pgv_txn' = target
    /\ Finish(p, Rewrapped("Insert error on genie_documents"))
    /\ UNCHANGED <<source, tracker_id_default, tracker, pg_txn, target>>
    /\ UNCHANGED <<last_migrated_id, rows, existing_questions, idx,
                   provider_calls, histVars, embVars,
                   searchVars>>

\* Lines 121-130 failing after both embeddings came back: the psycopg2.Error
\* is caught at lines 419-426, both connections roll back.
UpdateFail(p) ==
    /\ pc[p] = "loop"
    /\ idx[p] <= Len(rows[p])
    /\ Question(Row(p)) \notin existing_questions[p]
    /\ \E r \in ReturningResponses :
         provider_calls' = [provider_calls EXCEPT ![p] =
            Append(Append(@, Call(Question(Row(p)), r[1])),
                   Call(IF Answer(Row(p)) # "" THEN Answer(Row(p)) ELSE "", r[2]))]
    /\ pgv_txn' = target
    /\ pg_txn' = tracker
    /\ Finish(p, Rewrapped("PostgreSQL query error: embeddings"))
    /\ UNCHANGED <<source, tracker_id_default, tracker, target>>
    /\ UNCHANGED <<last_migrated_id, rows, existing_questions, idx, histVars,
                   embVars,
                   searchVars>>

\* Lines 407-415: the loop is over; the last row's id goes to the tracker.
WriteMark(p) ==
    /\ pc[p] = "loop"
    /\ idx[p] > Len(rows[p])
    /\ pg_txn' = UpsertMark(pg_txn, rows[p][Len(rows[p])].id, tracker_id_default)
    /\ pc' = [pc EXCEPT ![p] = "commit_pg"]
    /\ UNCHANGED <<source, tracker_id_default, tracker, target, pgv_txn>>
    /\ UNCHANGED <<last_migrated_id, rows, existing_questions, idx, result,
                   provider_calls, histVars, embVars,
                   searchVars>>

\* Lines 407-416 failing: caught at lines 419-426, both connections roll back.
WriteMarkFail(p) ==
    /\ pc[p] = "loop"
    /\ idx[p] > Len(rows[p])
    /\ pgv_txn' = target
    /\ pg_txn' = tracker
    /\ Finish(p, Rewrapped("PostgreSQL query error: migration_tracker"))
    /\ UNCHANGED <<source, tracker_id_default, tracker, target>>
    /\ UNCHANGED <<last_migrated_id, rows, existing_questions, idx,
                   provider_calls, histVars, embVars,
                   searchVars>>

\* Line 416: pg_conn.commit().
CommitPg(p) ==
    /\ pc[p] = "commit_pg"
    /\ tracker' = pg_txn
    /\ pc' = [pc EXCEPT ![p] = "commit_pgv"]
    /\ maxMark' = Max({maxMark, SelectMark(pg_txn)})
    /\ UNCHANGED <<source, tracker_id_default, pg_txn, target, pgv_txn>>
    /\ UNCHANGED <<last_migrated_id, rows, existing_questions, idx, result,
                   provider_calls, maxFetched, overlapped, targetAtStart,
                   appended, followUp, embVars,
                   searchVars>>

\* Lines 417-418: pgv_conn.commit(), then the success answer.
CommitPgv(p) ==
    /\ pc[p] = "commit_pgv"
    /\ target' = pgv_txn
    /\ Finish(p, Success(Len(rows[p])))
    /\ maxFetched' = Max({maxFetched} \cup {rows[p][i].id : i \in 1..Len(rows[p])})
    /\ UNCHANGED <<source, tracker_id_default, tracker, pg_txn, pgv_txn>>
    /\ UNCHANGED <<last_migrated_id, rows, existing_questions, idx,
                   provider_calls, maxMark, overlapped, targetAtStart,
                   appended, followUp, embVars,
                   searchVars>>

\* ---------------------------------------------------- get_embeddings alone

\* Texts the handlers pass to get_embeddings.
Texts == {"", "a", "x"}

\* A caller posts a text and the provider answers.
EmbedCall ==
    /\ embPc \in {"idle", "returned"}
    /\ \E t \in Texts, r \in ProviderResponses :
         /\ embText' = t
         /\ embResponse' = r
    /\ embResult' = Raised("pending")
    /\ embPc' = "called"
    /\ UNCHANGED <<dbVars, passVars, histVars, searchVars>>

\* get_embeddings returns or raises.
EmbedReturn ==
    /\ embPc = "called"
    /\ embResult' = get_embeddings(embText, embResponse, D)
    /\ embPc' = "returned"
    /\ UNCHANGED <<dbVars, passVars, histVars, embText, embResponse,
                   searchVars>>

\* ------------------------------------------------------ similarity search

\* Largest number of rows genie_documents holds when only searches run.
MaxTarget == 2

\* A float8 of PostgreSQL: a number, kept in units of 1/10000, or NaN.
Number(n) == [nan |-> FALSE, val |-> n]

NaN == [nan |-> TRUE, val |-> 0]

RECURSIVE DotFrom(_, _, _)
DotFrom(u, v, i) ==
    IF i > Len(u) THEN 0 ELSE u[i] * v[i] + DotFrom(u, v, i + 1)

Dot(u, v) == DotFrom(u, v, 1)

\* floor(10000 * d / sqrt(n)) for the dot products d and the products n of
\* squared norms that vectors of 0 and 1 of length D give.
CosineTable ==
    [d \in 0..D, n \in 1..(D * D) |->
        IF d * d >= n THEN 10000
        ELSE CHOOSE c \in 0..10000 :
                /\ c * c * n <= 100000000 * d * d
                /\ 100000000 * d * d < (c + 1) * (c + 1) * n]

\* 1 - (question_embedding <=> %s::vector) (lines 190 and 257): pgvector's
\* cosine distance divides by the two norms, so a zero vector gives NaN.
CosineSimilarity(u, v) ==
    LET n == Dot(u, u) * Dot(v, v)
    IN IF n = 0 THEN NaN ELSE Number(CosineTable[Dot(u, v), n])

\* The > of float8 (lines 193 and 260), which also orders ORDER BY: PostgreSQL
\* takes NaN as greater than every number and equal to itself.
PgGreater(a, b) ==
    IF a.nan THEN ~b.nan ELSE (~b.nan /\ a.val > b.val)

\* pgvector refuses <=> on vectors of different lengths.
DimensionError(table, q) ==
    \E i \in 1..Len(table) :
        /\ ~table[i].question_embedding.null
        /\ Len(table[i].question_embedding.vec) # Len(q)

\* Faulty variant: a row without a vector is scored as if it held D zeros.
MatchesNullAsZeros(r, q, threshold) ==
    PgGreater(CosineSimilarity(IF r.question_embedding.null THEN Zeros(Len(q))
                               ELSE r.question_embedding.vec, q),
              Number(threshold))

\* WHERE question_embedding IS NOT NULL AND 1 - (... <=> ...) > %s
\* (lines 192-193 and 259-260).
Matches(r, q, threshold) ==
    /\ ~r.question_embedding.null
    /\ PgGreater(CosineSimilarity(r.question_embedding.vec, q),
                 Number(threshold))

SelectSimilar(table, q, threshold) ==
    {i \in 1..Len(table) : Matches(table[i], q, threshold)}

Score(table, q, i) == CosineSimilarity(table[i].question_embedding.vec, q)

\* ORDER BY similarity_score DESC (lines 194 and 261): every order of the
\* matching rows in which no row comes before a row of greater score; rows of
\* equal score come in the order the store pleases.
ByScoreDesc(table, q, S) ==
    {f \in Orderings(S) :
        \A i, j \in DOMAIN f :
            i < j => ~PgGreater(Score(table, q, f[j]), Score(table, q, f[i]))}

\* LIMIT %s (lines 195 and 262).
Limit(f, n) == SubSeq(f, 1, IF n < Len(f) THEN n ELSE Len(f))

\* The row sets cursor.fetchall() may return (lines 200 and 267).
SimilarRows(table, q, threshold, n) ==
    {[k \in 1..Len(Limit(f, n)) |->
        [question |-> table[f[k]].question,
         answer |-> table[f[k]].answer,
         link |-> table[f[k]].link,
         date |-> table[f[k]].date,
         similarity_score |-> Score(table, q, f[k])]] :
     f \in ByScoreDesc(table, q, SelectSimilar(table, q, threshold))}

\* Lines 204-210. The links and dates of the model are never NULL or empty:
\* `row[2] or ""` leaves the link and `str(row[3]) if row[3] else ""` gives
\* the date as text.
SearchResult(row) ==
    [question |-> OrEmpty(row.question),
     answer |-> OrEmpty(row.answer),
     link |-> row.link,
     date |-> ToString(row.date),
     similarity_score |-> row.similarity_score]

NoSearch ==
    [status |-> 0, results |-> <<>>, total_results |-> -1, detail |-> ""]

NoSimple ==
    [status |-> 0, context |-> <<>>, sources |-> <<>>, total_results |-> -1,
     detail |-> ""]

\* Lines 212-215.
SearchResponse(results) ==
    [status |-> 200, results |-> results, total_results |-> Len(results),
     detail |-> ""]

\* The HTTPException of lines 217-234.
SearchError(code, d) ==
    [status |-> code, results |-> <<>>, total_results |-> -1, detail |-> d]

\* A SearchRequest (lines 65-68) with what the provider answers to its query.
Request(response, limit, threshold) ==
    [query |-> "a", response |-> response, limit |-> limit,
     similarity_threshold |-> threshold]

NoRequest ==
    [query |-> "", response |-> Failure("network_failure"), limit |-> 0,
     similarity_threshold |-> 0]

\* A client posts one SearchRequest, to /search, to /search-simple or to both.
PostSearch(requests) ==
    /\ \E request \in requests : searchRequest' = request
    /\ searchResult' = NoSearch
    /\ simpleResult' = NoSimple
    /\ searchSawNull' = FALSE
    /\ UNCHANGED <<dbVars, passVars, histVars, embVars>>

SawNull(table) ==
    \E i \in 1..Len(table) : table[i].question_embedding.null

\* POST /search (lines 168-234). The handler has no await: it runs between
\* the synchronous stretches of the passes, on the connection they use.
search_knowledge_base ==
    /\ \A p \in Procs : ~Running(p)
    /\ searchRequest # NoRequest
    /\ searchResult = NoSearch
    /\ LET request == searchRequest
           query_embedding ==
                get_embeddings(request.query, request.response, D)
       IN   IF query_embedding.exc # "none"
               THEN /\ searchResult' = SearchError(500, query_embedding.exc)
                    /\ searchSawNull' = FALSE
               ELSE IF DimensionError(pgv_txn, query_embedding.value)
               THEN /\ searchResult' = SearchError(503, "Database search error")
                    /\ searchSawNull' = SawNull(pgv_txn)
               ELSE /\ \E fetched \in SimilarRows(pgv_txn, query_embedding.value,
                                                 request.similarity_threshold,
                                                 request.limit) :
                         searchResult' =
                            SearchResponse([k \in 1..Len(fetched) |->
                                               SearchResult(fetched[k])])
                    /\ searchSawNull' = SawNull(pgv_txn)
    /\ UNCHANGED <<dbVars, passVars, histVars, embVars, searchRequest,
                   simpleResult>>

\* One line of the context text: f"{label}: {text}".
Line(label, text) == [label |-> label, text |-> text]

\* A score rounded to three decimals.
Round3(score) ==
    IF score.nan THEN NaN ELSE Number(((score.val + 5) \div 10) * 10)

\* f"{similarity_score:.3f}" (line 294): the thousandths as text, 'nan' for
\* NaN.
Format3(score) ==
    IF score.nan THEN "nan" ELSE ToString(Round3(score).val \div 10)

\* Lines 281-295: the lines one row adds to the context. The links and dates
\* of the model are never empty, so `if link:` and `if date:` hold.
ContextPart(k, row) ==
    <<Line("Result", ToString(k)),
      Line("Question", OrEmpty(row.question)),
      Line("Answer", OrEmpty(row.answer)),
      Line("Source", ToString(row.link)),
      Line("Date", ToString(row.date)),
      Line("Relevance", Format3(row.similarity_score)),
      Line("", "")>>

RECURSIVE ContextFrom(_, _)
ContextFrom(fetched, k) ==
    IF k > Len(fetched) THEN <<>>
    ELSE ContextPart(k, fetched[k]) \o ContextFrom(fetched, k + 1)

\* Faulty variant: the source carries the score as the context prints it.
SourceWithFormattedScore(row) ==
    [question |-> OrEmpty(row.question),
     link |-> row.link,
     date |-> ToString(row.date),
     similarity_score |-> Round3(row.similarity_score)]

\* Lines 297-302.
Source(row) ==
    [question |-> OrEmpty(row.question),
     link |-> row.link,
     date |-> ToString(row.date),
     similarity_score |-> row.similarity_score]

\* Lines 269-274 and 304-308.
SimpleResponse(fetched) ==
    IF fetched = <<>>
    THEN [status |-> 200,
          context |-> <<Line("No relevant information found in the knowledge base.",
                             "")>>,
          sources |-> <<>>, total_results |-> 0, detail |-> ""]
    ELSE [status |-> 200,
          context |-> ContextFrom(fetched, 1),
          sources |-> [k \in 1..Len(fetched) |-> Source(fetched[k])],
          total_results |-> Len(fetched), detail |-> ""]

\* The HTTPException of lines 310-327.
SimpleError(code, d) ==
    [status |-> code, context |-> <<>>, sources |-> <<>>,
     total_results |-> -1, detail |-> d]

\* POST /search-simple (lines 236-327).
search_knowledge_base_simple ==
    /\ \A p \in Procs : ~Running(p)
    /\ searchRequest # NoRequest
    /\ simpleResult = NoSimple
    /\ LET request == searchRequest
           query_embedding ==
                get_embeddings(request.query, request.response, D)
       IN   IF query_embedding.exc # "none"
               THEN /\ simpleResult' = SimpleError(500, query_embedding.exc)
                    /\ searchSawNull' = FALSE
               ELSE IF DimensionError(pgv_txn, query_embedding.value)
               THEN /\ simpleResult' = SimpleError(503, "Database search error")
                    /\ searchSawNull' = SawNull(pgv_txn)
               ELSE /\ \E fetched \in SimilarRows(pgv_txn, query_embedding.value,
                                                 request.similarity_threshold,
                                                 request.limit) :
                         simpleResult' = SimpleResponse(fetched)
                    /\ searchSawNull' = SawNull(pgv_txn)
    /\ UNCHANGED <<dbVars, passVars, histVars, embVars, searchRequest,
                   searchResult>>

\* The first and the last unit vector of length n.
FirstUnit(n) == [i \in 1..n |-> IF i = 1 THEN 1 ELSE 0]

LastUnit(n) == [i \in 1..n |-> IF i = n THEN 1 ELSE 0]

\* What the provider answers to the query of a search.
QueryResponses ==
    {Vector(Ones(D)), Vector(FirstUnit(D)), Vector(LastUnit(D)),
     Vector(Ones(D + 1)), Failure("network_failure"),
     Failure("empty_data_list")}

\* limit (default 5) and similarity_threshold (default 0.7, here 7000).
Limits == {0, 1, 5}

Thresholds == {0, 7000, 10000}

SearchRequests ==
    {Request(r, n, t) : r \in QueryResponses, n \in Limits, t \in Thresholds}

\* The search run beside the passes: a query the provider embeds.
PassRequests ==
    {Request(Vector(Ones(D)), 5, 7000)}

\* The provider's answers to a pass that runs beside searches: both calls
\* answered, both lost on the network, and a body that makes the first call
\* raise, which ends the pass between its INSERT and its UPDATE.
PassResponses ==
    {<<Vector(Ones(D)), Vector(Ones(D))>>,
     <<Failure("network_failure"), Failure("network_failure")>>,
     <<Failure("empty_data_list"), Failure("empty_data_list")>>}

\* The vectors a stored question may carry when only searches run.
StoredEmbeddings ==
    {NullEmbedding, Embedded(Zeros(D)), Embedded(Ones(D)),
     Embedded(FirstUnit(D))}

\* genie_documents with n rows, one question each.
Stores(n) ==
    {[i \in 1..n |->
        [id |-> i, question |-> ToString(i), answer |-> "x", link |-> i,
         date |-> i, question_embedding |-> e[i],
         answer_embedding |-> e[i]]] :
     e \in [1..n -> StoredEmbeddings]}

\* ---------------------------------------------------------- specifications

\* Everything but genie_documents, as it is when the application starts.
InitRest ==
    /\ source = <<>>
    /\ tracker_id_default \in {"sequence", "constant"}
    /\ tracker = {}
    /\ pg_txn = {}
    /\ pc = [p \in Procs |-> "idle"]
    /\ last_migrated_id = [p \in Procs |-> 0]
    /\ rows = [p \in Procs |-> <<>>]
    /\ existing_questions = [p \in Procs |-> {}]
    /\ idx = [p \in Procs |-> 0]
    /\ result = [p \in Procs |-> NoResult]
    /\ provider_calls = [p \in Procs |-> <<>>]
    /\ maxFetched = 0
    /\ maxMark = 0
    /\ overlapped = FALSE
    /\ targetAtStart = <<>>
    /\ appended = FALSE
    /\ followUp = "none"
    /\ embText = ""
    /\ embResponse = Failure("network_failure")
    /\ embResult = Raised("pending")
    /\ embPc = "idle"
    /\ searchRequest = NoRequest
    /\ searchResult = NoSearch
    /\ simpleResult = NoSimple
    /\ searchSawNull = FALSE

Init ==
    /\ target = <<>>
    /\ pgv_txn = <<>>
    /\ InitRest

\* genie_documents as earlier passes may have left it: up to MaxTarget rows,
\* with or without vectors, nothing pending.
InitSearch ==
    /\ target \in UNION {Stores(n) : n \in 0..MaxTarget}
    /\ pgv_txn = target
    /\ InitRest

\* One pass at a time, every failure point open.
Next ==
    \/ AppendSource
    \/ ReadMark(1)
    \/ ReadMarkFail(1)
    \/ Fetch(1)
    \/ FetchFail(1)
    \/ EmptyReturn(1)
    \/ Scan(1)
    \/ ScanFail(1)
    \/ LoopSkip(1)
    \/ EmbedRow(1, SyncResponses)
    \/ InsertFail(1)
    \/ UpdateFail(1)
    \/ WriteMark(1)
    \/ WriteMarkFail(1)
    \/ CommitPg(1)
    \/ CommitPgv(1)

Spec == Init /\ [][Next]_vars

\* Two overlapping passes, no store failure and no exception.
NextConc ==
    \/ AppendSource
    \/ \E p \in Procs :
         \/ ReadMark(p)
         \/ Fetch(p)
         \/ EmptyReturn(p)
         \/ Scan(p)
         \/ LoopSkip(p)
         \/ EmbedRow(p, ReturningResponses)
         \/ WriteMark(p)
         \/ CommitPg(p)
         \/ CommitPgv(p)

SpecConc == Init /\ [][NextConc]_vars

\* One pass at a time, no store failure and no exception.
NextSeq ==
    \/ AppendSource
    \/ ReadMark(1)
    \/ Fetch(1)
    \/ EmptyReturn(1)
    \/ Scan(1)
    \/ LoopSkip(1)
    \/ EmbedRow(1, ReturningResponses)
    \/ WriteMark(1)
    \/ CommitPg(1)
    \/ CommitPgv(1)

SpecSeq == Init /\ [][NextSeq]_vars

NextEmbed == EmbedCall \/ EmbedReturn

SpecEmbed == Init /\ [][NextEmbed]_vars

\* Searches over a store that does not change.
NextSearch ==
    \/ PostSearch(SearchRequests)
    \/ search_knowledge_base
    \/ search_knowledge_base_simple

SpecSearch == InitSearch /\ [][NextSearch]_vars

\* Searches beside passes that get_embeddings may abort.
NextSyncSearch ==
    \/ AppendSource
    \/ ReadMark(1)
    \/ Fetch(1)
    \/ EmptyReturn(1)
    \/ Scan(1)
    \/ LoopSkip(1)
    \/ EmbedRow(1, PassResponses)
    \/ WriteMark(1)
    \/ CommitPg(1)
    \/ CommitPgv(1)
    \/ PostSearch(PassRequests)
    \/ search_knowledge_base
    \/ search_knowledge_base_simple

\* The schema of migration_tracker plays no part in a search: one is taken.
InitSyncSearch == Init /\ tracker_id_default = "sequence"

SpecSyncSearch == InitSyncSearch /\ [][NextSyncSearch]_vars

\* ------------------------------------------------------------ properties

Ended(p) == pc[p] = "done"

Succeeded(p) == Ended(p) /\ result[p].status = 200

\* The committed genie_documents rows that carry question q.
Holding(q) == {i \in 1..Len(target) : target[i].question = q}

FetchedIds(p) == {rows[p][i].id : i \in 1..Len(rows[p])}

LastId(p) == rows[p][Len(rows[p])].id

HasBothEmbeddings(r) ==
    ~r.question_embedding.null /\ ~r.answer_embedding.null

HasZeroEmbeddings(r) ==
    /\ r.question_embedding = Embedded(Zeros(D))
    /\ r.answer_embedding = Embedded(Zeros(D))

\* C1: after successful passes and appends, the mark a pass reads at its
\* start is the largest id the successful passes fetched, and it is not lower
\* than any mark held before.
C1_MonotonicProgress ==
    pc[1] = "fetch" =>
        /\ last_migrated_id[1] = maxFetched
        /\ last_migrated_id[1] >= maxMark

\* C2: genie_documents never holds two rows with one question, committed or
\* pending, and every source row a successful pass covered has exactly one
\* committed row with its question.
C2_NoDoubleInsert ==
    /\ \A i, j \in 1..Len(target) :
         target[i].question = target[j].question => i = j
    /\ \A i, j \in 1..Len(pgv_txn) :
         pgv_txn[i].question = pgv_txn[j].question => i = j
    /\ \A i \in 1..Len(source) :
         source[i].id <= maxFetched =>
            Cardinality(Holding(Question(source[i]))) = 1

\* C2 witness: a successful pass whose batch held the same question twice.
C2_Witness ==
    /\ Succeeded(1)
    /\ Len(rows[1]) = 2
    /\ Question(rows[1][1]) = Question(rows[1][2])
    /\ Question(rows[1][1]) \notin existing_questions[1]
    /\ Cardinality(Holding(Question(rows[1][1]))) = 1

\* C3: a pass that follows a successful pass with nothing appended to the
\* source in between reports synced = 0, writes nothing to genie_documents
\* and leaves the mark as it read it.
C3_Idempotence ==
    (Succeeded(1) /\ followUp = "success") =>
        /\ result[1].synced = 0
        /\ target = targetAtStart
        /\ Mark = last_migrated_id[1]

\* C4: a pass whose INSERT failed, at whatever row of the batch, ends in an
\* error and leaves the mark at the value the pass read at its start.
C4_FatalAbortAtomicity ==
    (Ended(1) /\ result[1].detail = "Insert error on genie_documents") =>
        /\ result[1].status >= 400
        /\ Mark = last_migrated_id[1]
        /\ pg_txn = tracker

\* C4 witness: the INSERT of the batch's second row failed after the first
\* row was committed.
C4_Witness ==
    /\ Ended(1)
    /\ result[1].detail = "Insert error on genie_documents"
    /\ idx[1] = 2
    /\ target # targetAtStart

\* C5: every source row with id at or below the committed mark has a
\* committed genie_documents row with its question.
C5_MarkNeverPastMissingData ==
    \A i \in 1..Len(source) :
        source[i].id <= Mark => Holding(Question(source[i])) # {}

\* The provider outcomes C6 lists: a vector of any length (empty included),
\* a missing vector, a provider failure.
ShapeOutcomes ==
    {"vector", "missing_embedding", "network_failure", "http_error_status"}

\* C6: whatever the provider does, get_embeddings returns exactly D numbers:
\* zeros on a provider failure, the provider's values then zeros on a short
\* answer.
C6_EmbeddingShape ==
    (embPc = "returned" /\ embResponse.kind \in ShapeOutcomes) =>
        /\ embResult.exc = "none"
        /\ Len(embResult.value) = D
        /\ embResponse.kind \in {"network_failure", "http_error_status"} =>
              embResult.value = Zeros(D)
        /\ (embResponse.kind = "vector" /\ Len(embResponse.embedding) < D) =>
              embResult.value =
                 embResponse.embedding \o Zeros(D - Len(embResponse.embedding))

\* The provider errors C7 lists.
ProviderErrors ==
    {"network_failure", "http_error_status", "non_json_body",
     "empty_data_list", "missing_embedding"}

\* C7: on every provider error get_embeddings returns D zeros and raises
\* nothing.
C7_NeverFailsCaller ==
    (embPc = "returned" /\ embResponse.kind \in ProviderErrors) =>
        /\ embResult.exc = "none"
        /\ embResult.value = Zeros(D)

\* The answers of a pass that a store failure ended.
StoreFailures ==
    {"Permission denied or table migration_tracker missing",
     "MySQL service unavailable",
     "Permission denied for table genie_documents",
     "Insert error on genie_documents",
     "PostgreSQL query error: embeddings",
     "PostgreSQL query error: migration_tracker"}

AllCallsFailed(p) ==
    \A i \in 1..Len(provider_calls[p]) :
        provider_calls[p][i].kind = "network_failure"

\* C8: a pass over a non-empty batch during which every provider call failed,
\* and no store did, succeeds, leaves every new question in genie_documents
\* with two all-zero vectors of length D, and moves the mark to the last id of
\* the batch.
C8_ProviderOutageNotFatal ==
    (Ended(1) /\ rows[1] # <<>> /\ AllCallsFailed(1)
        /\ result[1].detail \notin StoreFailures) =>
        /\ result[1].status = 200
        /\ Mark = LastId(1)
        /\ \A i \in 1..Len(rows[1]) :
              Question(rows[1][i]) \notin existing_questions[1] =>
                 /\ Holding(Question(rows[1][i])) # {}
                 /\ \A j \in Holding(Question(rows[1][i])) :
                       HasZeroEmbeddings(target[j])

\* C8 witness: a pass that embedded two new questions while the provider was
\* down.
C8_Witness ==
    /\ Succeeded(1)
    /\ Len(provider_calls[1]) = 4
    /\ AllCallsFailed(1)
    /\ Len(target) = 2
    /\ \A j \in 1..Len(target) : HasZeroEmbeddings(target[j])

\* The batch came back in id order.
Ascending(p) ==
    \A i, j \in 1..Len(rows[p]) : i < j => rows[p][i].id < rows[p][j].id

\* C9: a pass that meets no error, run after a pass that was cut short in the
\* batch loop or at the progress write and over the same source, ends as one
\* error-free pass would: one row per question of the batch, both vectors
\* attached, and the mark at the last id of the batch. Stated for a batch that
\* came back in id order, so that the order of the rows plays no part.
C9_BatchResumable ==
    (Succeeded(1) /\ followUp = "batch_abort" /\ rows[1] # <<>>
        /\ Ascending(1)) =>
        /\ \A i \in 1..Len(rows[1]) :
              /\ Cardinality(Holding(Question(rows[1][i]))) = 1
              /\ \A j \in Holding(Question(rows[1][i])) :
                    HasBothEmbeddings(target[j])
        /\ Mark = LastId(1)

\* C10: when two overlapping passes have both ended, every question they
\* fetched has exactly one row, and the mark is not lower than any mark held
\* before and is the largest id either pass fetched, or the mark a pass began
\* from where that is larger (a pass that starts at the mark fetches nothing
\* at or below it). Stated for batches that came back in id order, so that
\* the order of the rows plays no part.
C10_OverlappingPassesSafe ==
    (Ended(1) /\ Ended(2) /\ overlapped /\ Ascending(1) /\ Ascending(2)) =>
        /\ \A p \in Procs : \A i \in 1..Len(rows[p]) :
              Cardinality(Holding(Question(rows[p][i]))) = 1
        /\ Mark >= maxMark
        /\ (FetchedIds(1) \cup FetchedIds(2)) # {} =>
              Mark = Max(FetchedIds(1) \cup FetchedIds(2)
                            \cup {last_migrated_id[p] : p \in Procs})

\* The rows of the batch the loop did not skip (lines 378-381).
Processed(p) ==
    {i \in 1..Len(rows[p]) : Question(rows[p][i]) \notin existing_questions[p]}

\* C11: the synced count of a successful pass is the number of batch rows the
\* loop processed, the rows skipped for a question of the snapshot left out.
C11_SyncedCountsProcessed ==
    Succeeded(1) => result[1].synced = Cardinality(Processed(1))

\* C12: a pass ended by a store failure, at any of the six failure points,
\* answers 503 and names the cause.
C12_StoreFailureIs503 ==
    (Ended(1) /\ result[1].detail \in StoreFailures) =>
        result[1].status = 503

\* The rows of a table that carry question q.
RecordsOf(table, q) ==
    {table[i] : i \in {j \in 1..Len(table) : table[j].question = q}}

\* The vectors stored with question q.
EmbeddingsOf(table, q) ==
    {<<r.question_embedding, r.answer_embedding>> : r \in RecordsOf(table, q)}

\* The handler of pass 1 takes a step on the row the loop stands at.
RowStep ==
    /\ pc[1] = "loop"
    /\ idx[1] <= Len(rows[1])
    /\ (pc'[1] # pc[1] \/ idx'[1] # idx[1])

\* C16: a row whose question is not in the snapshot but already in
\* genie_documents (the INSERT hits the unique constraint) and that the loop
\* gets past has its date updated only: no provider call is made for it and
\* the vectors stored with its question stay as they were.
C16_ConflictSkipsEmbedding ==
    [][(/\ RowStep
        /\ Question(Row(1)) \notin existing_questions[1]
        /\ HasQuestion(pgv_txn, Question(Row(1)))
        /\ idx'[1] = idx[1] + 1)
       => /\ provider_calls'[1] = provider_calls[1]
          /\ EmbeddingsOf(pgv_txn', Question(Row(1)))
                = EmbeddingsOf(pgv_txn, Question(Row(1)))]_vars

C18_EmptyAnswerNoCall ==
    [][(/\ RowStep
        /\ Question(Row(1)) \notin existing_questions[1]
        /\ ~HasQuestion(pgv_txn, Question(Row(1)))
        /\ Answer(Row(1)) = ""
        /\ idx'[1] = idx[1] + 1)
       => /\ Len(provider_calls'[1]) = Len(provider_calls[1]) + 1
          /\ \A r \in RecordsOf(pgv_txn', Question(Row(1))) :
                r.answer_embedding = Embedded(Zeros(D))]_vars

\* C19: no committed genie_documents row has a null question vector or a
\* null answer vector.
C19_NoHalfWrittenRecord ==
    \A i \in 1..Len(target) : HasBothEmbeddings(target[i])

\* The batch is not empty and every question of it was committed to
\* genie_documents before the pass began.
OnlySkips(p) ==
    /\ rows[p] # <<>>
    /\ \A i \in 1..Len(rows[p]) :
          Question(rows[p][i]) \in SelectQuestions(targetAtStart)

\* C20: a pass over a batch made only of questions genie_documents already
\* holds, and that no store failure ended, succeeds, leaves genie_documents
\* as it was and the mark at the batch's last id; the pass that follows it
\* with nothing appended to the source reads a mark above which the source
\* holds no row, and so fetches nothing.
C20_SkipsOnlyBatchProgresses ==
    [][/\ (Ended(1) /\ OnlySkips(1) /\ result[1].detail \notin StoreFailures)
          => /\ result[1].status = 200
             /\ target = targetAtStart
             /\ Mark = LastId(1)
       /\ (Succeeded(1) /\ OnlySkips(1) /\ ~appended /\ pc'[1] = "fetch")
          => SelectNewer(source', last_migrated_id'[1]) = {}]_vars

\* What get_embeddings gives for the query of the posted request.
QueryEmbedding ==
    get_embeddings(searchRequest.query, searchRequest.response, D)

\* A score is a number above t, as the caller of the search reads it.
Above(score, t) == ~score.nan /\ score.val > t

\* The stored rows whose similarity to the query is a number above t.
Clearing(table, q, t) ==
    {i \in 1..Len(table) :
        /\ ~table[i].question_embedding.null
        /\ Above(CosineSimilarity(table[i].question_embedding.vec, q), t)}

\* C13: a search answers with records whose scores are all above the
\* threshold, in non-increasing order of score and no more than limit, and
\* with no record, and no error, when the store is empty or no row clears the
\* threshold. Stated for a query that get_embeddings turned into D numbers,
\* so that the provider's malformed answers play no part.
C13_SearchFloorOrderCap ==
    (/\ searchResult # NoSearch
     /\ QueryEmbedding.exc = "none"
     /\ Len(QueryEmbedding.value) = D) =>
        LET found == searchResult.results
            t == searchRequest.similarity_threshold
        IN /\ searchResult.status = 200
           /\ \A k \in 1..Len(found) : Above(found[k].similarity_score, t)
           /\ \A j, k \in 1..Len(found) :
                 j < k => found[j].similarity_score.val
                             >= found[k].similarity_score.val
           /\ Len(found) <= searchRequest.limit
           /\ Clearing(pgv_txn, QueryEmbedding.value, t) = {} => found = <<>>

\* C14: neither search endpoint ever returns a row that has no question
\* vector, whatever the passes did before the search, a pass cut short after
\* an INSERT included.
C14_UnembeddedNeverSearchable ==
    [][/\ (searchResult' # searchResult /\ searchResult'.status = 200) =>
            \A k \in 1..Len(searchResult'.results) :
               \A r \in RecordsOf(pgv_txn, searchResult'.results[k].question) :
                  ~r.question_embedding.null
       /\ (simpleResult' # simpleResult /\ simpleResult'.status = 200) =>
            \A k \in 1..Len(simpleResult'.sources) :
               \A r \in RecordsOf(pgv_txn, simpleResult'.sources[k].question) :
                  ~r.question_embedding.null]_vars

\* C14 witness: /search, the only endpoint to have answered the request, read
\* genie_documents while it held a row without vectors and returned another
\* row.
C14_Witness ==
    /\ searchSawNull
    /\ simpleResult = NoSimple
    /\ searchResult.status = 200
    /\ Len(searchResult.results) >= 1
    /\ ~searchResult.results[1].similarity_score.nan

\* What /search-simple keeps of a result of /search.
Projection(found) ==
    [question |-> found.question, link |-> found.link, date |-> found.date,
     similarity_score |-> found.similarity_score]

BothAnswered == searchResult # NoSearch /\ simpleResult # NoSimple

\* C15: for one request and one store, the sources of /search-simple are the
\* results of /search, record by record in the same order, with the same
\* scores and the same total_results, and neither endpoint writes to
\* genie_documents or migration_tracker.
C15_SimpleIsProjection ==
    [][/\ (searchResult' # searchResult \/ simpleResult' # simpleResult)
          => UNCHANGED dbVars
       /\ BothAnswered'
          => /\ simpleResult'.status = searchResult'.status
             /\ simpleResult'.total_results = searchResult'.total_results
             /\ simpleResult'.sources =
                   [k \in 1..Len(searchResult'.results) |->
                       Projection(searchResult'.results[k])]]_vars

\* The matching rows that share the score s.
SharingScore(table, q, t, s) ==
    {i \in SelectSimilar(table, q, t) : Score(table, q, i) = s}

\* C15 as amended: the two answers have the same status, the same
\* total_results and the same scores in the same order, and the same record
\* wherever one matching row only has that score; rows of equal score may
\* come in either order. Neither endpoint writes to a store.
C15_SimpleIsProjectionUpToTies ==
    [][/\ (searchResult' # searchResult \/ simpleResult' # simpleResult)
          => UNCHANGED dbVars
       /\ BothAnswered'
          => /\ simpleResult'.status = searchResult'.status
             /\ simpleResult'.total_results = searchResult'.total_results
             /\ Len(simpleResult'.sources) = Len(searchResult'.results)
             /\ \A k \in 1..Len(searchResult'.results) :
                   LET found == searchResult'.results[k]
                       entry == simpleResult'.sources[k]
                   IN /\ entry.similarity_score = found.similarity_score
                      /\ Cardinality(SharingScore(pgv_txn', QueryEmbedding'.value,
                                        searchRequest'.similarity_threshold,
                                        found.similarity_score)) = 1
                         => entry = Projection(found)]_vars

\* C15 witness: both endpoints answered one request with two records of
\* different scores.
C15_Witness ==
    /\ BothAnswered
    /\ searchResult.status = 200
    /\ Len(searchResult.results) = 2
    /\ Len(simpleResult.sources) = 2
    /\ searchResult.results[1].similarity_score
          # searchResult.results[2].similarity_score

====
